---- MODULE Spec2Model ----
(***************************************************************************)
(* lsopentmf (opentmf-utils): the option parser, the driver/device         *)
(* enumeration pass of main() and print_multi_line(), modelled from        *)
(* src/src/lsopentmf.c.                                                    *)
(*                                                                         *)
(* Driver names, device paths and the URL are modelled by their length,    *)
(* which is what the buffer arithmetic of main() depends on.  The text     *)
(* given to print_multi_line() is a sequence of characters.  A call into   *)
(* libopentmf is a step whose result is chosen nondeterministically.  The  *)
(* record of the run (library calls made, lines written to stdout and      *)
(* stderr) is kept as multisets, together with the first and the last      *)
(* library call.                                                           *)
(***************************************************************************)
EXTENDS Integers, Sequences, FiniteSets, Bags

\* ------------------------------------------------------------------ bounds
MaxArgs == 3
MaxDrivers == 2
MaxDevices == 2
MaxLen == 4

\* ------------------------------------------------------- program constants
VERBOSE_MAX == 2
EXIT_SUCCESS == 0
EXIT_FAILURE == 1
URL_SIZE_INIT == 1024
SCHEME_LEN == 10

\* Options getopt_long() can return: the four declared ones and '?' for an
\* unrecognized option.
Opts == {"d", "v", "h", "V", "?"}

\* Result of a libopentmf call.
Results == {"SUCCESS", "ERROR"}

\* Lengths of the driver names / device paths the library may hand out.
\* 1014 is the shortest name that triggers the doubling, 2038 the shortest
\* one for which one doubling is not enough; 10 + 3 + 1011 + 1 = 1025.
DriverNameLens == {3, 1014, 2038}
DevicePathLens == {4, 1011}

NL == "\n"
Chars == {"a", "b", NL}
Labels == {<<"L">>}

RECURSIVE SeqsUpTo(_, _)
SeqsUpTo(S, n) ==
  IF n = 0 THEN {<<>>}
  ELSE LET shorter == SeqsUpTo(S, n - 1)
       IN shorter \cup {Append(s, x) : s \in {t \in shorter : Len(t) = n - 1}, x \in S}

VARIABLES
  pc,            \* position in main()
  args,          \* the options getopt_long() has not returned yet
  nverbose,      \* number of -v/--verbose options getopt_long() has returned
  verbose, show_devices, status,
  ret,           \* {} while running, {s} once exit(s) was called or main returned s
  out, err,      \* the lines written to stdout / stderr
  calls,         \* the libopentmf calls made
  first_call, last_call,
  list_len,      \* length of the driver list the library returned
  driver_name,   \* the rest of the driver list, from *driver_name on
  device_list_len,  \* length of the device list the library returned
  device,        \* the rest of the device list, from *device on
  url_size, url_len, url_base_len,
  drv, dev,      \* the handle variables of main(): a handle, or NoHandle
  handles,       \* the handles that are open in the library
  overflow,      \* a write went past url_size bytes
  text, label, pml_out, pml_pc   \* print_multi_line() argument and output

vars == <<pc, args, nverbose, verbose, show_devices, status, ret, out, err,
          calls, first_call, last_call, list_len, driver_name, device_list_len,
          device, url_size, url_len,
          url_base_len, drv, dev, handles, overflow, text, label, pml_out, pml_pc>>

parseVars == <<args, nverbose, verbose, show_devices>>
callVars == <<calls, first_call, last_call>>
listVars == <<list_len, driver_name, device_list_len, device>>
urlVars == <<url_size, url_len, url_base_len, overflow>>
pmlVars == <<text, label, pml_out, pml_pc>>
handleVars == <<drv, dev, handles>>

\* A handle: <<"drv", i, 0>> for the i-th driver of the list, <<"dev", i, j>>
\* for the j-th device of its device list.
\* Value of a handle variable that holds no handle.
NoHandle == <<>>

\* One more copy of e in bag B.
Add(B, e) == B (+) SetToBag({e})

\* ------------------------------------------------------------ print_help
\* printf() of the usage text
print_help == Add(out, "usage")

\* printf() of the version line
print_version == Add(out, "version")

\* ------------------------------------------------ print_multi_line (48-69)
\* strchr(text, '\n') for the string starting at index pos of t:
\* the index of its first line break, 0 for NULL.
strchr(t, pos) ==
  LET hits == {k \in pos..Len(t) : t[k] = NL}
  IN IF hits = {} THEN 0 ELSE CHOOSE k \in hits : \A m \in hits : k <= m

\* int length = 1 + new_line - text (line 58)
LineLength(new_line, pos) == 1 + new_line - pos

\* The tail printed after the do-while loop (lines 64-65).
FinalPartialLineDropped(t, pos) == <<>>

FinalPartialLine(t, pos) ==
  IF pos <= Len(t) THEN <<" ", " ">> \o SubSeq(t, pos, Len(t)) \o <<NL>> ELSE <<>>

\* The do-while loop of lines 56-62 followed by lines 64-65; pos is the
\* index text points to, new_line the index of the next line break.
RECURSIVE DoWhile(_, _, _)
DoWhile(t, pos, new_line) ==
  LET length == LineLength(new_line, pos)
      printed == <<" ", " ">> \o SubSeq(t, pos, pos + length - 1)
      pos2 == pos + length
      new_line2 == strchr(t, pos2)
  IN IF new_line2 # 0
     THEN printed \o DoWhile(t, pos2, new_line2)
     ELSE printed \o FinalPartialLine(t, pos2)

print_multi_line(lbl, t) ==
  LET new_line == strchr(t, 1)
  IN IF new_line # 0
     THEN lbl \o <<":", NL>> \o DoWhile(t, 1, new_line)
     ELSE lbl \o <<":", " ">> \o t \o <<NL>>

\* ------------------------------------------------------- option parsing
\* case 'v'
IncVerboseNoClamp(v) == v + 1

IncVerbose(v) == IF v < VERBOSE_MAX THEN v + 1 ELSE v

\* The switch cases that leave the program through exit().
ShortCircuitsNoHelp(r) == r \in {"V", "?"}

ShortCircuits(r) == r \in {"h", "V", "?"}

\* The argument of exit() in the switch case of option r.
ExitCode(r) == IF r \in {"h", "V"} THEN EXIT_SUCCESS ELSE EXIT_FAILURE

\* One iteration of while((r = getopt_long(...)) != -1) { switch(r) ... }
\* print_help() and print_version() use printf(), i.e. stdout, in every case;
\* getopt_long() itself reports an unrecognized option on stderr.
ParseOption ==
  /\ pc = "parse"
  /\ args # <<>>
  /\ LET r == Head(args) IN
     /\ args' = Tail(args)
     /\ out' = CASE r \in {"h", "?"} -> print_help
                 [] r = "V" -> print_version
                 [] OTHER -> out
     /\ err' = IF r = "?" THEN Add(err, "getopt: unrecognized option") ELSE err
     /\ show_devices' = IF r = "d" THEN 1 ELSE show_devices
     /\ verbose' = IF r = "v" THEN IncVerbose(verbose) ELSE verbose
     /\ nverbose' = IF r = "v" THEN nverbose + 1 ELSE nverbose
     /\ IF ShortCircuits(r)
        THEN pc' = "done" /\ ret' = {ExitCode(r)}
        ELSE pc' = "parse" /\ ret' = ret
  /\ UNCHANGED <<status, callVars, listVars, urlVars, handleVars, pmlVars>>

\* getopt_long() returned -1
ParseEnd ==
  /\ pc = "parse"
  /\ args = <<>>
  /\ pc' = "init"
  /\ UNCHANGED <<parseVars, status, ret, out, err, callVars, listVars, urlVars,
                 handleVars, pmlVars>>

\* ------------------------------------------------- library context (115-123)
\* A call of libopentmf function fn on a kind of object ("ctx", "drv", "dev")
\* that returned r and, for a list, a list of n entries.
Call(fn, kind, r, n) == [fn |-> fn, kind |-> kind, r |-> r, n |-> n]

\* The call c is made.
Made(c) ==
  /\ calls' = Add(calls, c)
  /\ first_call' = IF first_call = "" THEN c.fn ELSE first_call
  /\ last_call' = c.fn

\* fprintf(stderr, "Error ...: %s (%d)\n", opentmf_get_status_str(r), r)
LogError(what) == Add(err, what)

LibInit ==
  /\ pc = "init"
  /\ \E r \in Results :
       /\ Made(Call("init", "ctx", r, 0))
       /\ IF r # "SUCCESS"
          THEN /\ err' = LogError("Error initializing library")
               /\ ret' = {EXIT_FAILURE}
               /\ pc' = "done"
          ELSE /\ pc' = "get_driver_list"
               /\ UNCHANGED <<err, ret>>
  /\ UNCHANGED <<parseVars, status, out, listVars, urlVars, handleVars, pmlVars>>

\* status after a failed opentmf_get_driver_list() (line 240)
StatusAfterListFailure(s) == EXIT_FAILURE

\* opentmf_get_driver_list(), malloc(url_size) and the else branch 237-241
GetDriverList ==
  /\ pc = "get_driver_list"
  /\ \/ \E l \in SeqsUpTo(DriverNameLens, MaxDrivers) :
          /\ Made(Call("get_driver_list", "ctx", "SUCCESS", Len(l)))
          /\ list_len' = Len(l)
          /\ driver_name' = l
          /\ url_size' = URL_SIZE_INIT
          /\ pc' = "drv_loop"
          /\ UNCHANGED <<err, status>>
     \/ /\ Made(Call("get_driver_list", "ctx", "ERROR", 0))
        /\ err' = LogError("Error getting driver list")
        /\ status' = StatusAfterListFailure(status)
        /\ pc' = "exit"
        /\ UNCHANGED <<list_len, driver_name, url_size>>
  /\ UNCHANGED <<parseVars, ret, out, device_list_len, device, url_len,
                 url_base_len, overflow, handleVars, pmlVars>>

\* ---------------------------------------------------- URL buffer (125-140)
\* if(10 + strlen(*driver_name) >= url_size) { url_size *= 2; realloc }
Grow(size, name_len) ==
  IF SCHEME_LEN + name_len >= size THEN size * 2 ELSE size

\* A string of length len and its terminator fit a buffer of size bytes.
Fits(len, size) == len + 1 <= size

\* driver_name++ (229), device++ (215): the pointer moves to the next entry.
NextEntrySkipsOne(p) == IF Len(p) > 1 THEN Tail(Tail(p)) ELSE Tail(p)

NextEntry(p) == Tail(p)

\* Index in the driver list of the entry driver_name points to.
DriverIndex == list_len - Len(driver_name) + 1

\* Index in the device list of the entry device points to.
DeviceIndex == device_list_len - Len(device) + 1

\* Lines 130-140: loop test, growth check, strcat of scheme and driver name.
DriverUrl ==
  /\ pc = "drv_loop"
  /\ driver_name # <<>>
  /\ url_size' = Grow(url_size, Head(driver_name))
  /\ url_len' = SCHEME_LEN + Head(driver_name)
  /\ overflow' = (overflow \/ ~Fits(url_len', url_size'))
  /\ pc' = "drv_open"
  /\ UNCHANGED <<parseVars, status, ret, out, err, callVars, listVars,
                 url_base_len, handleVars, pmlVars>>

\* ------------------------------------------------------ driver (142-171)
\* The lines printed for an opened driver, per verbosity (switch at 146).
\* print_multi_line() renders the Description and Authors blocks.
DriverLines(v) ==
  CASE v = 0 -> {"name"}
    [] v = 1 -> {"name version license free"}
    [] OTHER -> {"Driver:", "Version:", "Description:", "Authors:", "License:",
                 "Free:", ""}

\* opentmf_open(ctx, url, &drv), the info switch, and the else branch 226-229
OpenDriver ==
  /\ pc = "drv_open"
  /\ \E r \in Results :
       /\ Made(Call("open", "drv", r, 0))
       /\ IF r = "SUCCESS"
          THEN /\ drv' = <<"drv", DriverIndex, 0>>
               /\ handles' = handles \cup {drv'}
               /\ out' = out (+) SetToBag(DriverLines(verbose))
               /\ pc' = IF show_devices = 1 THEN "dev_list" ELSE "drv_close"
               /\ UNCHANGED <<err, driver_name>>
          ELSE /\ err' = LogError("Error opening driver")
               /\ driver_name' = NextEntry(driver_name)
               /\ pc' = "drv_loop"
               /\ UNCHANGED <<drv, handles, out>>
  /\ UNCHANGED <<parseVars, status, ret, list_len, device_list_len, device,
                 urlVars, dev, pmlVars>>

\* -------------------------------------------------- devices (173-223)
\* opentmf_drv_get_device_list(), url_base_len = strlen(url), else branch 221-222
GetDeviceList ==
  /\ pc = "dev_list"
  /\ \/ \E l \in SeqsUpTo(DevicePathLens, MaxDevices) :
          /\ Made(Call("get_device_list", "drv", "SUCCESS", Len(l)))
          /\ device_list_len' = Len(l)
          /\ device' = l
          /\ url_base_len' = url_len
          /\ pc' = "dev_loop"
          /\ err' = err
     \/ /\ Made(Call("get_device_list", "drv", "ERROR", 0))
        /\ err' = LogError("Error getting device list")
        /\ pc' = "drv_close"
        /\ UNCHANGED <<device_list_len, device, url_base_len>>
  /\ UNCHANGED <<parseVars, status, ret, out, list_len, driver_name, url_size,
                 url_len, overflow, handleVars, pmlVars>>

\* Lines 183-186: loop test, url[url_base_len] = '\0', strcat(url, *device).
\* The buffer is not grown here.
DeviceUrl ==
  /\ pc = "dev_loop"
  /\ device # <<>>
  /\ url_len' = url_base_len + Head(device)
  /\ overflow' = (overflow \/ ~Fits(url_len', url_size))
  /\ pc' = "dev_open"
  /\ UNCHANGED <<parseVars, status, ret, out, err, callVars, listVars, url_size,
                 url_base_len, handleVars, pmlVars>>

\* The lines printed for an opened device, per verbosity (switch at 192).
DeviceLines(v) ==
  CASE v = 0 -> {"  path"}
    [] v = 1 -> {"  path name serial"}
    [] OTHER -> {"  Path:", "  Name:", "  Serial:", ""}

\* opentmf_close(h): the handle h is open no longer.
CloseLeaks(hs, h) == hs

Close(hs, h) == hs \ {h}

\* opentmf_open(ctx, url, &dev), the info switch, and the else branch 212-215
OpenDevice ==
  /\ pc = "dev_open"
  /\ \E r \in Results :
       /\ Made(Call("open", "dev", r, 0))
       /\ IF r = "SUCCESS"
          THEN /\ dev' = <<"dev", DriverIndex, DeviceIndex>>
               /\ handles' = handles \cup {dev'}
               /\ out' = out (+) SetToBag(DeviceLines(verbose))
               /\ pc' = "dev_close"
               /\ UNCHANGED <<err, device>>
          ELSE /\ err' = LogError("Error opening device")
               /\ device' = NextEntry(device)
               /\ pc' = "dev_loop"
               /\ UNCHANGED <<dev, handles, out>>
  /\ UNCHANGED <<parseVars, status, ret, list_len, driver_name, device_list_len,
                 urlVars, drv, pmlVars>>

\* opentmf_close(dev); device++ (210, 215)
CloseDevice ==
  /\ pc = "dev_close"
  /\ Made(Call("close", "dev", "SUCCESS", 0))
  /\ handles' = Close(handles, dev)
  /\ device' = NextEntry(device)
  /\ pc' = "dev_loop"
  /\ UNCHANGED <<parseVars, status, ret, out, err, list_len, driver_name,
                 device_list_len, urlVars, drv, dev, pmlVars>>

\* End of the device loop: opentmf_drv_free_device_list() (218-219); dev,
\* device_list, device and url_base_len go out of scope (220).
FreeDeviceList ==
  /\ pc = "dev_loop"
  /\ device = <<>>
  /\ \E r \in Results :
       /\ Made(Call("free_device_list", "drv", r, 0))
       /\ err' = IF r # "SUCCESS" THEN LogError("Error freeing device list") ELSE err
  /\ device_list_len' = 0
  /\ url_base_len' = 0
  /\ dev' = NoHandle
  /\ pc' = "drv_close"
  /\ UNCHANGED <<parseVars, status, ret, out, list_len, driver_name, device,
                 url_size, url_len, overflow, drv, handles, pmlVars>>

\* opentmf_close(drv); driver_name++ (224, 229)
CloseDriver ==
  /\ pc = "drv_close"
  /\ Made(Call("close", "drv", "SUCCESS", 0))
  /\ handles' = Close(handles, drv)
  /\ driver_name' = NextEntry(driver_name)
  /\ pc' = "drv_loop"
  /\ UNCHANGED <<parseVars, status, ret, out, err, list_len, device_list_len,
                 device, urlVars, drv, dev, pmlVars>>

\* End of the driver loop: free(url); opentmf_free_driver_list() (232-235)
FreeDriverList ==
  /\ pc = "drv_loop"
  /\ driver_name = <<>>
  /\ \E r \in Results :
       /\ Made(Call("free_driver_list", "ctx", r, 0))
       /\ err' = IF r # "SUCCESS" THEN LogError("Error freeing driver list") ELSE err
  /\ pc' = "exit"
  /\ UNCHANGED <<parseVars, status, ret, out, listVars, urlVars, handleVars, pmlVars>>

\* status after opentmf_exit() returned r (243-247)
StatusAfterExitIgnored(s, r) == s

StatusAfterExit(s, r) == IF r # "SUCCESS" THEN EXIT_FAILURE ELSE s

\* opentmf_exit(ctx) and return status (243-249)
LibExit ==
  /\ pc = "exit"
  /\ \E r \in Results :
       /\ Made(Call("exit", "ctx", r, 0))
       /\ err' = IF r # "SUCCESS" THEN LogError("Error finalizing library") ELSE err
       /\ status' = StatusAfterExit(status, r)
  /\ ret' = {status'}
  /\ pc' = "done"
  /\ UNCHANGED <<parseVars, out, listVars, urlVars, handleVars, pmlVars>>

\* Writing past the end of the malloc()ed buffer is undefined behaviour: the
\* run may go on as if nothing happened, or the process may be killed at any
\* later point (a fault, or the allocator detecting the damaged heap).
Abort ==
  /\ overflow
  /\ pc \notin {"done", "aborted"}
  /\ pc' = "aborted"
  /\ UNCHANGED <<parseVars, status, ret, out, err, callVars, listVars, urlVars,
                 handleVars, pmlVars>>

\* ----------------------------------------------------------------- main
\* The variables of main() before the options are parsed.
InitMain ==
  /\ nverbose = 0
  /\ verbose = 0
  /\ show_devices = 0
  /\ status = EXIT_SUCCESS
  /\ ret = {}
  /\ out = EmptyBag
  /\ err = EmptyBag
  /\ calls = EmptyBag
  /\ first_call = ""
  /\ last_call = ""
  /\ list_len = 0
  /\ driver_name = <<>>
  /\ device_list_len = 0
  /\ device = <<>>
  /\ url_size = 0
  /\ url_len = 0
  /\ url_base_len = 0
  /\ drv = NoHandle
  /\ dev = NoHandle
  /\ handles = {}
  /\ overflow = FALSE

Init ==
  /\ pc = "parse"
  /\ args \in SeqsUpTo(Opts, MaxArgs)
  /\ InitMain
  /\ text = <<>>
  /\ label = <<>>
  /\ pml_out = <<>>
  /\ pml_pc = "idle"

Next ==
  \/ ParseOption
  \/ ParseEnd
  \/ LibInit
  \/ GetDriverList
  \/ DriverUrl
  \/ OpenDriver
  \/ GetDeviceList
  \/ DeviceUrl
  \/ OpenDevice
  \/ CloseDevice
  \/ FreeDeviceList
  \/ CloseDriver
  \/ FreeDriverList
  \/ LibExit
  \/ Abort

Spec == Init /\ [][Next]_vars

\* ------------------------------------------- print_multi_line, on its own
\* A caller hands print_multi_line() a label and a text (lines 165-166).
CallPrintMultiLine ==
  /\ pml_pc = "call"
  /\ pml_out' = print_multi_line(label, text)
  /\ pml_pc' = "returned"
  /\ UNCHANGED <<pc, parseVars, status, ret, out, err, callVars, listVars,
                 urlVars, handleVars, text, label>>

InitPML ==
  /\ pc = "done"
  /\ args = <<>>
  /\ InitMain
  /\ text \in SeqsUpTo(Chars, MaxLen)
  /\ label \in Labels
  /\ pml_out = <<>>
  /\ pml_pc = "call"

NextPML == CallPrintMultiLine

SpecPML == InitPML /\ [][NextPML]_vars

\* =================================================================
\* Properties
\* =================================================================
Range(q) == {q[k] : k \in 1..Len(q)}

Count(q, P(_)) == Cardinality({k \in 1..Len(q) : P(q[k])})

\* Number of elements of bag B that satisfy P, copies counted.
CountIn(B, P(_)) == BagCardinality([e \in {x \in DOMAIN B : P(x)} |-> B[e]])

\* ---- print_multi_line as the documentation describes it
HasBreak(t) == \E k \in 1..Len(t) : t[k] = NL

\* Index of the first character of every line of t.
LineStarts(t) ==
  IF t = <<>> THEN {} ELSE {1} \cup {k + 1 : k \in {m \in 1..(Len(t) - 1) : t[m] = NL}}

\* Index of the last character of the line starting at s.
LineEnd(t, s) ==
  IF \E k \in s..Len(t) : t[k] = NL
  THEN CHOOSE k \in s..Len(t) : t[k] = NL /\ \A m \in s..(k - 1) : t[m] # NL
  ELSE Len(t)

IndentedLine(t, s) ==
  LET e == LineEnd(t, s)
  IN <<" ", " ">> \o SubSeq(t, s, e) \o (IF t[e] = NL THEN <<>> ELSE <<NL>>)

RECURSIVE IndentedLines(_, _)
IndentedLines(t, starts) ==
  IF starts = {} THEN <<>>
  ELSE LET s == CHOOSE x \in starts : \A y \in starts : x <= y
       IN IndentedLine(t, s) \o IndentedLines(t, starts \ {s})

Rendered(lbl, t) ==
  IF HasBreak(t)
  THEN lbl \o <<":", NL>> \o IndentedLines(t, LineStarts(t))
  ELSE lbl \o <<":", " ">> \o t \o <<NL>>

\* The characters of q that are not part of the label line or of an
\* indentation: q without its first skip characters and without the two
\* characters that follow every line break.
RECURSIVE Unindent(_, _)
Unindent(q, skip) ==
  IF q = <<>> THEN <<>>
  ELSE IF skip > 0 THEN Unindent(Tail(q), skip - 1)
  ELSE IF Head(q) = NL THEN <<NL>> \o Unindent(Tail(q), 2)
  ELSE <<Head(q)>> \o Unindent(Tail(q), 0)

\* C10: print_multi_line(label, text) prints "label: text" and a line break
\* when text has no line break; otherwise "label:" on a line of its own and
\* then every line of text indented by two spaces, the final partial line
\* included and given a line break.  The output has as many indented lines as
\* text has lines and contains every character of text, in order.
C10_Rendering ==
  pml_pc = "returned" =>
    /\ pml_out = Rendered(label, text)
    /\ HasBreak(text) =>
         /\ Count(pml_out, LAMBDA c : c = NL) = 1 + Cardinality(LineStarts(text))
         /\ Unindent(pml_out, Len(label) + 4) =
              (IF text[Len(text)] = NL THEN text ELSE text \o <<NL>>)

\* "a\nb" is rendered as "L:\n  a\n  b\n"
C10_Witness ==
  /\ pml_pc = "returned"
  /\ text = <<"a", NL, "b">>
  /\ pml_out = <<"L", ":", NL, " ", " ", "a", NL, " ", " ", "b", NL>>

\* ---- option parsing
Min(a, b) == IF a <= b THEN a ELSE b

\* C9: the verbosity level stays in {0,1,2}, never decreases, and after k
\* occurrences of -v/--verbose equals min(k, 2).
C9_Verbosity ==
  /\ [](verbose \in {0, 1, 2} /\ verbose = Min(nverbose, VERBOSE_MAX))
  /\ [][verbose' >= verbose /\ nverbose' >= nverbose]_vars

\* three -v options were parsed and the level is 2
C9_Witness == nverbose = 3 /\ verbose = 2 /\ pc = "init"

\* -h/--help is the option getopt_long() returned last.
HelpParsed == pc = "done" /\ "usage" \in DOMAIN out /\ ret = {EXIT_SUCCESS}

\* -h/--help is among the options that were given.
HelpGiven == HelpParsed \/ "h" \in Range(args)

\* -h/--help is the next option that is neither -d nor -v.
HelpComesFirst ==
  \E k \in 1..Len(args) :
    args[k] = "h" /\ \A m \in 1..(k - 1) : args[m] \in {"d", "v"}

OnlyUsagePrinted ==
  /\ out = SetToBag({"usage"})
  /\ err = EmptyBag
  /\ ret = {EXIT_SUCCESS}
  /\ calls = EmptyBag

\* C4 as stated: whenever -h/--help is given, at whatever position, the run
\* prints the usage text only, exits with status 0 and calls no library
\* function.
C4_Original == (HelpGiven /\ pc # "parse") => (pc = "done" /\ OnlyUsagePrinted)

\* C4, amended: when -h/--help is parsed, i.e. no -V/--version and no
\* unrecognized option stands before it, the run prints the usage text only,
\* exits with status 0 and calls no library function, whatever -d and -v
\* options stand before or after it.
C4_HelpShortCircuits ==
  [][(pc = "parse" /\ HelpComesFirst) =>
       /\ out = EmptyBag /\ err = EmptyBag /\ calls = EmptyBag /\ ret = {}
       /\ \/ pc' = "parse" /\ HelpComesFirst'
          \/ pc' = "done" /\ OnlyUsagePrinted']_vars

\* help was parsed after a -d, with a -v behind it
C4_Witness ==
  /\ pc = "done"
  /\ show_devices = 1
  /\ args = <<"v">>
  /\ out = SetToBag({"usage"})
  /\ ret = {EXIT_SUCCESS}

\* An unrecognized option was the last one getopt_long() returned.
UnrecognizedParsed == pc = "done" /\ "getopt: unrecognized option" \in DOMAIN err

ErrorMessages ==
  {"Error initializing library", "Error getting driver list",
   "Error opening driver", "Error getting device list", "Error opening device",
   "Error freeing device list", "Error freeing driver list",
   "Error finalizing library", "getopt: unrecognized option"}

\* C5: after an unrecognized option the usage text is on stderr and nothing is
\* on stdout, the exit status is failure and no library call was made; no
\* error message is ever written to stdout.
C5_UsageOnStderr ==
  /\ UnrecognizedParsed =>
       /\ out = EmptyBag
       /\ "usage" \in DOMAIN err
       /\ ret = {EXIT_FAILURE}
       /\ calls = EmptyBag
  /\ DOMAIN out \cap ErrorMessages = {}

\* The part of C5 the code does satisfy: the error messages go to stderr only,
\* and an unrecognized option ends the run with status failure and no call.
C5_ErrorsOnStderr ==
  /\ UnrecognizedParsed => (ret = {EXIT_FAILURE} /\ calls = EmptyBag)
  /\ DOMAIN out \cap ErrorMessages = {}

\* ---- the enumeration pass
Terminated == pc \in {"done", "aborted"}

\* Number of calls of fn, and of those on a kind of object.
Calls(fn) == CountIn(calls, LAMBDA c : c.fn = fn)

CallsOn(fn, kind) == CountIn(calls, LAMBDA c : c.fn = fn /\ c.kind = kind)

Failures == CountIn(calls, LAMBDA c : c.r = "ERROR")

Failed(fn) == \E c \in DOMAIN calls : c.fn = fn /\ c.r = "ERROR"

ListGot == \E c \in DOMAIN calls : c.fn = "get_driver_list" /\ c.r = "SUCCESS"

InitDone == Call("init", "ctx", "SUCCESS", 0) \in DOMAIN calls

\* Number of entries of all the device lists got.
RECURSIVE SumOfLengths(_)
SumOfLengths(S) ==
  IF S = {} THEN 0
  ELSE LET c == CHOOSE x \in S : TRUE
       IN c.n * CopiesIn(c, calls) + SumOfLengths(S \ {c})

DevicesListed ==
  SumOfLengths({c \in DOMAIN calls : c.fn = "get_device_list" /\ c.r = "SUCCESS"})

DrvHandles == {h \in handles : h[1] = "drv"}

DevHandles == {h \in handles : h[1] = "dev"}

\* C1 as stated: at most one handle, driver or device, is open at any moment;
\* none is open when an open call is about to be made or when main returns.
C1_Original ==
  /\ Cardinality(handles) <= 1
  /\ pc \in {"drv_open", "dev_open", "done"} => handles = {}

\* C1, amended: at most one driver handle and at most one device handle are
\* open at any moment, a device handle only while the handle of its driver is
\* open: no handle is open when a driver is opened, only the driver's handle is
\* when one of its devices is opened, and none is when main returns.
C1_HandleDiscipline ==
  /\ Cardinality(DrvHandles) <= 1
  /\ Cardinality(DevHandles) <= 1
  /\ DevHandles # {} => (DrvHandles = {drv} /\ DevHandles = {dev} /\ dev[2] = drv[2])
  /\ pc \in {"drv_loop", "drv_open", "exit", "done"} => handles = {}
  /\ pc \in {"dev_list", "dev_loop", "dev_open", "drv_close"} => handles = {drv}
  /\ pc = "dev_close" => handles = {drv, dev}

\* the second device of a driver is open, together with the driver
C1_Witness == handles = {<<"drv", 1, 0>>, <<"dev", 1, 2>>}

\* C2: whenever a URL has been written into the buffer, the capacity is at
\* least the length of the URL plus the terminator.
C2_BufferFits == pc \in {"drv_open", "dev_open"} => Fits(url_len, url_size)

\* The second half of C2: the capacity never decreases.
C2_NeverShrinks == [][url_size' >= url_size]_vars

\* C3 as stated: after the options were parsed without an early exit, main
\* returns failure only when initialization or finalization failed.
C3_Original ==
  (pc = "done" /\ calls # EmptyBag) =>
    (ret = {EXIT_FAILURE} => (Failed("init") \/ Failed("exit")))

\* C3, amended: after the options were parsed without an early exit, main
\* returns failure exactly when initialization, getting the driver list or
\* finalization failed; every failed call is logged with one line on stderr,
\* and the other failures leave the status at success.
C3_ExitStatus ==
  /\ (pc = "done" /\ calls # EmptyBag) =>
       /\ ret \in {{EXIT_SUCCESS}, {EXIT_FAILURE}}
       /\ ret = {EXIT_FAILURE} <=>
            (Failed("init") \/ Failed("get_driver_list") \/ Failed("exit"))
  /\ calls # EmptyBag =>
       /\ BagCardinality(err) = Failures
       /\ status = EXIT_FAILURE <=> (Failed("get_driver_list") \/ Failed("exit"))

\* a driver failed to open, a device list was not got, the driver list was
\* not freed, and main returned success
C3_Witness ==
  /\ pc = "done"
  /\ ret = {EXIT_SUCCESS}
  /\ Failed("open")
  /\ Failed("get_device_list")
  /\ Failed("free_driver_list")

\* C6 as stated: for a driver list of length N exactly N open attempts occur
\* during the run, each followed by one close when it succeeded.
C6_Original ==
  (pc = "done" /\ ListGot) =>
    /\ Calls("open") = list_len
    /\ Calls("close") = CountIn(calls, LAMBDA c : c.fn = "open" /\ c.r = "SUCCESS")

\* Number of open attempts on a kind of object that returned r, of all open
\* attempts on it, and of the closes of its handles.
Opened(kind, r) == CopiesIn(Call("open", kind, r, 0), calls)

OpenAttempts(kind) == Opened(kind, "SUCCESS") + Opened(kind, "ERROR")

Closed(kind) == CopiesIn(Call("close", kind, "SUCCESS", 0), calls)

\* The closes of the handles of a kind match the successful opens, but for
\* the handle that is still open.
ClosesMatchOpens(kind, open) ==
  Closed(kind) + Cardinality(open) = Opened(kind, "SUCCESS")

\* C6, amended: for a driver list of length N, one open attempt is made per
\* driver, in list order, never more than N, and exactly N by the time main
\* returns; with show-devices set there is in addition one open attempt per
\* entry of every device list got, in list order; each successful open is
\* followed by exactly one close of its handle before main returns, a failed
\* one by none.
C6_OpenCloseCounts ==
  ListGot =>
    LET drivers == OpenAttempts("drv")
        devices == OpenAttempts("dev")
        listed == DevicesListed
    IN
    /\ pc \in {"drv_loop", "drv_open", "exit", "done"} => drivers = DriverIndex - 1
    /\ pc \in {"dev_list", "dev_loop", "dev_open", "dev_close", "drv_close"} =>
         (drivers = DriverIndex /\ drv = <<"drv", DriverIndex, 0>>)
    /\ drivers <= list_len
    /\ pc \in {"dev_loop", "dev_open"} => devices = listed - Len(device)
    /\ pc = "dev_close" =>
         /\ devices = listed - Len(device) + 1
         /\ dev = <<"dev", DriverIndex, DeviceIndex>>
    /\ pc \in {"drv_loop", "drv_open", "dev_list", "drv_close", "exit", "done"} =>
         devices = listed
    /\ devices <= listed
    /\ show_devices = 0 => devices = 0
    /\ ClosesMatchOpens("drv", DrvHandles)
    /\ ClosesMatchOpens("dev", DevHandles)
    /\ pc = "done" =>
         /\ drivers = list_len
         /\ Calls("open") = list_len + listed
         /\ Calls("close") = Opened("drv", "SUCCESS") + Opened("dev", "SUCCESS")

\* two drivers, two devices listed; one of the four opens failed
C6_Witness ==
  /\ pc = "done"
  /\ list_len = 2
  /\ DevicesListed = 2
  /\ Calls("open") = 4
  /\ Failed("open")
  /\ Calls("close") = 3

\* One of the failures C7 is about happened.
PerItemFailure ==
  \/ Failed("open")
  \/ Failed("get_device_list")
  \/ Failed("free_device_list")
  \/ Failed("free_driver_list")

\* C7: a failed open of a driver or device, a failed get of a device list and
\* a failed free of a device list or of the driver list are each logged with
\* one line and leave the exit status alone; every driver and every device of
\* the lists is still attempted, and the run ends with the driver list freed
\* and the library finalized.
C7_Recoverable ==
  (Terminated /\ ListGot /\ PerItemFailure) =>
    /\ BagCardinality(err) = Failures
    /\ ~Failed("exit") => status = EXIT_SUCCESS
    /\ CallsOn("open", "drv") = list_len
    /\ CallsOn("open", "dev") = DevicesListed
    /\ Calls("free_driver_list") = 1
    /\ Calls("exit") = 1

\* C7 for the runs in which main returns.
C7_WhenMainReturns == pc = "aborted" \/ C7_Recoverable

\* C8: initialization is the first library call and is made once; when it
\* fails the run ends with status failure and no other call; when it succeeds
\* the run ends with exactly one finalization, as its last library call, and a
\* failed finalization makes the exit status failure.
C8_ContextLifecycle ==
  /\ calls # EmptyBag => (first_call = "init" /\ Calls("init") = 1)
  /\ Failed("init") =>
       (BagCardinality(calls) = 1 /\ pc = "done" /\ ret = {EXIT_FAILURE})
  /\ (Terminated /\ InitDone) =>
       /\ Calls("exit") = 1
       /\ last_call = "exit"
       /\ Failed("exit") => ret = {EXIT_FAILURE}
  /\ ~Terminated => Calls("exit") = 0

\* C8 for the runs in which main returns.
C8_WhenMainReturns == pc = "aborted" \/ C8_ContextLifecycle

====
